---- MODULE Spec2Model ----
(***************************************************************************)
(* Media Server Token Server: the configuration load that runs when        *)
(* main.py is imported (AWS Secrets Manager first, environment variables   *)
(* as the fallback) and the POST /token request path (the get_api_key      *)
(* dependency, then the get_token handler).                                *)
(*                                                                         *)
(* Python values are records [t, s]: t is the type tag ("none", "str",     *)
(* "num", "unbound") and s the characters of a str, one per element.       *)
(* A dict is a function whose DOMAIN is the set of its keys.               *)
(***************************************************************************)
EXTENDS Integers, Sequences, FiniteSets, TLC

VARIABLES pc, fetched, remote, envRead, source, fallbacks,
          MEDIA_SERVER_URL, MEDIA_SERVER_API_KEY, MEDIA_SERVER_API_SECRET,
          SECRET_KEYS, req

vars == <<pc, fetched, remote, envRead, source, fallbacks,
          MEDIA_SERVER_URL, MEDIA_SERVER_API_KEY, MEDIA_SERVER_API_SECRET,
          SECRET_KEYS, req>>

(* ------------------------------ bounds --------------------------------- *)

\* Longest comma-separated key-list string (SECRET_KEYS) the model draws.
MaxLen == 3

(* ------------------------------ values --------------------------------- *)

None == [t |-> "none", s |-> <<>>]
Unbound == [t |-> "unbound", s |-> <<>>]
Num == [t |-> "num", s |-> <<>>]
Str(chars) == [t |-> "str", s |-> chars]

\* Python truthiness, as all([...]) and `x if v else y` apply it.
Truthy(v) == \/ v.t = "num"
             \/ v.t = "str" /\ v.s # <<>>

\* The characters a key-list string is drawn from.
KeyListChars == {"a", ","}

RECURSIVE StringsOfLen(_)
StringsOfLen(n) ==
    IF n = 0 THEN {<<>>}
    ELSE {Append(w, c) : w \in StringsOfLen(n - 1), c \in KeyListChars}

KeyListStrings == UNION {StringsOfLen(n) : n \in 0..MaxLen}

\* hours of datetime.timedelta(hours=24)
TTL_HOURS == 24

(* ------------------------- aws_secret_util.py -------------------------- *)

required_keys == <<"MEDIA_SERVER_URL", "MEDIA_SERVER_API_KEY",
                   "MEDIA_SERVER_API_SECRET", "SECRET_KEYS">>

RequiredKeySet == {required_keys[i] : i \in 1..Len(required_keys)}

ClientErrorCodes == {"DecryptionFailureException", "InternalServiceErrorException",
                     "InvalidParameterException", "InvalidRequestException",
                     "ResourceNotFoundException", "ThrottlingException"}

EmptyDict == [k \in {} |-> None]

\* What a bundle of the secret store may hold under each field.
BundleFieldValues(k) ==
    IF k = "MEDIA_SERVER_URL" THEN {Str(<<>>), Str(<<"R", "u">>)}
    ELSE IF k = "MEDIA_SERVER_API_KEY" THEN {Str(<<>>), Str(<<"R", "k">>)}
    ELSE IF k = "MEDIA_SERVER_API_SECRET" THEN {Str(<<>>), Str(<<"R", "s">>)}
    ELSE {Num} \cup {Str(w) : w \in KeyListStrings}

BundlesOver(D) ==
    {[k \in D |-> IF k = "MEDIA_SERVER_URL" THEN u
                  ELSE IF k = "MEDIA_SERVER_API_KEY" THEN a
                  ELSE IF k = "MEDIA_SERVER_API_SECRET" THEN x
                  ELSE l] :
        u \in BundleFieldValues("MEDIA_SERVER_URL"),
        a \in BundleFieldValues("MEDIA_SERVER_API_KEY"),
        x \in BundleFieldValues("MEDIA_SERVER_API_SECRET"),
        l \in BundleFieldValues("SECRET_KEYS")}

Bundles == UNION {BundlesOver(D) : D \in SUBSET RequiredKeySet}

\* What client.get_secret_value and json.loads can do inside get_secret: raise a
\* ClientError with some code, raise for missing or partial credentials, fail to
\* decode the SecretString, raise anything else, or yield the parsed JSON (an
\* object, or a JSON value that is no object).
StoreOutcomes ==
    {[kind |-> "ClientError", code |-> c, shape |-> "none", dict |-> EmptyDict] :
        c \in ClientErrorCodes}
    \cup {[kind |-> k, code |-> "", shape |-> "none", dict |-> EmptyDict] :
            k \in {"NoCredentialsError", "PartialCredentialsError",
                   "JSONDecodeError", "Exception"}}
    \cup {[kind |-> "ok", code |-> "", shape |-> "number", dict |-> EmptyDict]}
    \cup {[kind |-> "ok", code |-> "", shape |-> "object", dict |-> b] : b \in Bundles}

NotFetched == [kind |-> "not fetched", code |-> "", shape |-> "none", dict |-> EmptyDict]

NoException == [type |-> "none", kind |-> "", keys |-> <<>>]
SecretsManagerError(kind, keys) ==
    [type |-> "SecretsManagerError", kind |-> kind, keys |-> keys]
PyException(type) == [type |-> type, kind |-> "", keys |-> <<>>]

Returned(shape, dict) == [ok |-> TRUE, shape |-> shape, config |-> dict, exc |-> NoException]
Raised(exc) == [ok |-> FALSE, shape |-> "none", config |-> EmptyDict, exc |-> exc]

\* get_secret: the parsed secret, or a SecretsManagerError whatever went wrong.
get_secret(o) ==
    IF o.kind = "ok" THEN Returned(o.shape, o.dict)
    ELSE IF o.kind = "ClientError"
    THEN IF o.code \in {"DecryptionFailureException", "InternalServiceErrorException",
                        "InvalidParameterException", "InvalidRequestException",
                        "ResourceNotFoundException"}
         THEN Raised(SecretsManagerError(o.code, <<>>))
         ELSE Raised(SecretsManagerError("AWS error", <<>>))
    ELSE Raised(SecretsManagerError(o.kind, <<>>))

\* [key for key in required_keys if key not in secret_dict]
RECURSIVE MissingFrom(_, _)
MissingFrom(d, i) ==
    IF i > Len(required_keys) THEN <<>>
    ELSE IF required_keys[i] \in DOMAIN d
         THEN MissingFrom(d, i + 1)
         ELSE <<required_keys[i]>> \o MissingFrom(d, i + 1)

missing_keys(d) == MissingFrom(d, 1)

\* A faulty validation: a field counts as missing when its value is falsy.
RECURSIVE FalsyFrom(_, _)
FalsyFrom(d, i) ==
    IF i > Len(required_keys) THEN <<>>
    ELSE IF required_keys[i] \in DOMAIN d /\ Truthy(d[required_keys[i]])
         THEN FalsyFrom(d, i + 1)
         ELSE <<required_keys[i]>> \o FalsyFrom(d, i + 1)

validate_required_keys_Falsy(d) ==
    IF FalsyFrom(d, 1) # <<>>
    THEN Raised(SecretsManagerError("missing required keys", FalsyFrom(d, 1)))
    ELSE Returned("object", [k \in RequiredKeySet |-> d[k]])

\* The validation of get_media_server_config and the dict it returns.
validate_required_keys(d) ==
    IF missing_keys(d) # <<>>
    THEN Raised(SecretsManagerError("missing required keys", missing_keys(d)))
    ELSE Returned("object", [k \in RequiredKeySet |-> d[k]])

\* get_media_server_config: a SecretsManagerError of get_secret is re-raised as
\* it is; `key not in secret_dict` on a JSON value that is no object raises a
\* TypeError, which the last handler wraps in a SecretsManagerError.
get_media_server_config(o) ==
    LET r == get_secret(o) IN
    IF ~r.ok THEN r
    ELSE IF r.shape # "object"
    THEN Raised(SecretsManagerError("Failed to get media server config", <<>>))
    ELSE validate_required_keys(r.config)

(* ------------------------------ main.py -------------------------------- *)

\* A faulty split: empty parts are dropped, as str.split() without a separator
\* drops them.
split_DropsEmpty(w) ==
    LET F[i \in 0..Len(w)] ==
            IF i = 0 THEN <<<<>>>>
            ELSE IF w[i] = ","
                 THEN Append(F[i - 1], <<>>)
                 ELSE [F[i - 1] EXCEPT ![Len(F[i - 1])] = Append(@, w[i])]
    IN SelectSeq(F[Len(w)], LAMBDA part : part # <<>>)

\* str.split(","): every comma ends a part, so "" splits into [""].
split(w) ==
    LET F[i \in 0..Len(w)] ==
            IF i = 0 THEN <<<<>>>>
            ELSE IF w[i] = ","
                 THEN Append(F[i - 1], <<>>)
                 ELSE [F[i - 1] EXCEPT ![Len(F[i - 1])] = Append(@, w[i])]
    IN F[Len(w)]


\* os.getenv(name) for each of the four names: None when unset.
EnvFieldValues(k) ==
    IF k = "MEDIA_SERVER_URL" THEN {None, Str(<<>>), Str(<<"E", "u">>)}
    ELSE IF k = "MEDIA_SERVER_API_KEY" THEN {None, Str(<<>>), Str(<<"E", "k">>)}
    ELSE IF k = "MEDIA_SERVER_API_SECRET" THEN {None, Str(<<>>), Str(<<"E", "s">>)}
    ELSE {None} \cup {Str(w) : w \in KeyListStrings}

Environments ==
    {[k \in RequiredKeySet |-> IF k = "MEDIA_SERVER_URL" THEN u
                               ELSE IF k = "MEDIA_SERVER_API_KEY" THEN a
                               ELSE IF k = "MEDIA_SERVER_API_SECRET" THEN x
                               ELSE l] :
        u \in EnvFieldValues("MEDIA_SERVER_URL"),
        a \in EnvFieldValues("MEDIA_SERVER_API_KEY"),
        x \in EnvFieldValues("MEDIA_SERVER_API_SECRET"),
        l \in EnvFieldValues("SECRET_KEYS")}

NotRead == [k \in RequiredKeySet |-> Unbound]

\* The module globals before the load: none is bound.
NoGlobals ==
    [MEDIA_SERVER_URL |-> Unbound, MEDIA_SERVER_API_KEY |-> Unbound,
     MEDIA_SERVER_API_SECRET |-> Unbound, SECRET_KEYS |-> <<>>,
     keys_bound |-> FALSE, exc |-> NoException]

\* The try block of the load: the three credentials are assigned before the
\* key list is split, and .split of a value that is no str raises.
load_try(o) ==
    LET r == get_media_server_config(o) IN
    IF ~r.ok THEN [NoGlobals EXCEPT !.exc = r.exc]
    ELSE LET g == [NoGlobals EXCEPT
                     !.MEDIA_SERVER_URL = r.config["MEDIA_SERVER_URL"],
                     !.MEDIA_SERVER_API_KEY = r.config["MEDIA_SERVER_API_KEY"],
                     !.MEDIA_SERVER_API_SECRET = r.config["MEDIA_SERVER_API_SECRET"]]
         IN IF r.config["SECRET_KEYS"].t = "str"
            THEN [g EXCEPT !.SECRET_KEYS = split(r.config["SECRET_KEYS"].s),
                           !.keys_bound = TRUE]
            ELSE [g EXCEPT !.exc = PyException("AttributeError")]

\* A faulty fallback: the server URL is not read from the environment.
environment_fallback_KeepsURL(g, env) ==
    [g EXCEPT !.MEDIA_SERVER_API_KEY = env["MEDIA_SERVER_API_KEY"],
              !.MEDIA_SERVER_API_SECRET = env["MEDIA_SERVER_API_SECRET"],
              !.SECRET_KEYS = IF Truthy(env["SECRET_KEYS"])
                              THEN split(env["SECRET_KEYS"].s) ELSE <<>>,
              !.keys_bound = TRUE,
              !.exc = NoException]

\* The body of either except clause: all four globals are assigned from the
\* environment, over whatever the try block had assigned.
environment_fallback(g, env) ==
    [g EXCEPT !.MEDIA_SERVER_URL = env["MEDIA_SERVER_URL"],
              !.MEDIA_SERVER_API_KEY = env["MEDIA_SERVER_API_KEY"],
              !.MEDIA_SERVER_API_SECRET = env["MEDIA_SERVER_API_SECRET"],
              !.SECRET_KEYS = IF Truthy(env["SECRET_KEYS"])
                              THEN split(env["SECRET_KEYS"].s) ELSE <<>>,
              !.keys_bound = TRUE,
              !.exc = NoException]

Loaded(g, src, n) == [globals |-> g, source |-> src, fallbacks |-> n]

\* A faulty load: only SecretsManagerError is handled.
load_configuration_NoCatchAll(o, env) ==
    LET g == load_try(o) IN
    IF g.exc = NoException THEN Loaded(g, "remote", 0)
    ELSE IF g.exc.type = "SecretsManagerError"
    THEN Loaded(environment_fallback(g, env), "env", 1)
    ELSE Loaded(g, "none", 0)

\* The try/except of the load: except SecretsManagerError, then except Exception.
load_configuration(o, env) ==
    LET g == load_try(o) IN
    IF g.exc = NoException THEN Loaded(g, "remote", 0)
    ELSE IF g.exc.type = "SecretsManagerError"
    THEN Loaded(environment_fallback(g, env), "env", 1)
    ELSE Loaded(environment_fallback(g, env), "env", 1)

(* ----------------------------- requests -------------------------------- *)

\* The X-API-Key header as get_api_key receives it: None when absent. What
\* APIKeyHeader(auto_error=False) hands over for an empty header is the
\* framework's choice, so both None and the empty string are in the set.
HeaderValues ==
    {None} \cup {Str(k) : k \in {<<>>, <<"a">>, <<"a", "a">>, <<"b">>}}

NoCustomer == [present |-> FALSE, name |-> "", email |-> ""]

\* TokenRequest bodies: the defaults, and one naming an agent and a customer.
TokenRequests ==
    {[customer |-> NoCustomer, agent_name |-> "ivy"],
     [customer |-> [present |-> TRUE, name |-> "Ann", email |-> "ann@x"],
      agent_name |-> "sales"]}

\* Values uuid.uuid4() may return.
UUIDs == {"u1", "u2"}

\* Whether AccessToken(...).to_jwt() returns or raises.
SigningOutcomes == {"ok", "raise"}

NoBody == [token |-> <<>>, room_name |-> <<>>, participant |-> <<>>, agent |-> ""]
NoResponse == [status |-> 0, detail |-> <<>>, body |-> NoBody]
HTTPException(status, detail) == [status |-> status, detail |-> detail, body |-> NoBody]

\* list.index(x): the 0-based position of the first element equal to x.
index(list, x) ==
    (CHOOSE i \in 1..Len(list) : list[i] = x /\ \A j \in 1..(i - 1) : list[j] # x) - 1

\* A faulty lookup: the position of the last element equal to x.
get_api_key_LastMatch(api_key_header) ==
    IF api_key_header = None
    THEN [user_id |-> 0,
          exc |-> HTTPException(403, <<"API key is missing in the request header">>)]
    ELSE IF \E i \in 1..Len(SECRET_KEYS) : SECRET_KEYS[i] = api_key_header.s
    THEN [user_id |-> CHOOSE i \in 1..Len(SECRET_KEYS) :
                         /\ SECRET_KEYS[i] = api_key_header.s
                         /\ \A j \in (i + 1)..Len(SECRET_KEYS) :
                                SECRET_KEYS[j] # api_key_header.s,
          exc |-> NoResponse]
    ELSE [user_id |-> 0, exc |-> HTTPException(403, <<"Invalid API key">>)]

\* A faulty check: a key that is the prefix of a configured key is accepted.
get_api_key_PrefixMatch(api_key_header) ==
    IF api_key_header = None
    THEN [user_id |-> 0,
          exc |-> HTTPException(403, <<"API key is missing in the request header">>)]
    ELSE IF \E i \in 1..Len(SECRET_KEYS) :
                /\ Len(api_key_header.s) <= Len(SECRET_KEYS[i])
                /\ SubSeq(SECRET_KEYS[i], 1, Len(api_key_header.s)) = api_key_header.s
    THEN [user_id |-> 1, exc |-> NoResponse]
    ELSE [user_id |-> 0, exc |-> HTTPException(403, <<"Invalid API key">>)]

\* A faulty check: a request without the header is let through.
get_api_key_NoneAllowed(api_key_header) ==
    IF api_key_header = None
    THEN [user_id |-> 1, exc |-> NoResponse]
    ELSE IF \E i \in 1..Len(SECRET_KEYS) : SECRET_KEYS[i] = api_key_header.s
    THEN [user_id |-> index(SECRET_KEYS, api_key_header.s) + 1, exc |-> NoResponse]
    ELSE [user_id |-> 0, exc |-> HTTPException(403, <<"Invalid API key">>)]

\* get_api_key: the caller ordinal, or the 403 it raises.
get_api_key(api_key_header) ==
    IF api_key_header = None
    THEN [user_id |-> 0,
          exc |-> HTTPException(403, <<"API key is missing in the request header">>)]
    ELSE IF \E i \in 1..Len(SECRET_KEYS) : SECRET_KEYS[i] = api_key_header.s
    THEN [user_id |-> index(SECRET_KEYS, api_key_header.s) + 1, exc |-> NoResponse]
    ELSE [user_id |-> 0, exc |-> HTTPException(403, <<"Invalid API key">>)]


NoError == [type |-> "none", status |-> 0, detail |-> <<>>]

\* str(e) of the exception the handler caught: "<status>: <detail>" for an
\* HTTPException, the message otherwise.
str(e) ==
    IF e.type = "HTTPException" THEN <<"500: ">> \o e.detail ELSE e.detail

\* VideoGrants(room_join=..., room=...): every other capability keeps its
\* default, False.
VideoGrants(room_join, room) ==
    [room_create |-> FALSE, room_list |-> FALSE, room_admin |-> FALSE,
     room_record |-> FALSE, room_join |-> room_join, room |-> room]

\* json.dumps(metadata): the entries in insertion order, "customer" only when
\* the request carries one.
json_dumps_metadata(request, user_id) ==
    <<<<"agent", request.agent_name>>, <<"user_id", user_id>>>>
    \o (IF request.customer.present
        THEN <<<<"customer", request.customer.name, request.customer.email>>>>
        ELSE <<>>)

\* A faulty builder: the grant names no room, so it is not scoped to one.
AccessToken_AnyRoom(participant_identity, room_name, request, user_id) ==
    [api_key |-> MEDIA_SERVER_API_KEY,
     api_secret |-> MEDIA_SERVER_API_SECRET,
     identity |-> participant_identity,
     grants |-> VideoGrants(TRUE, <<>>),
     ttl_hours |-> TTL_HOURS,
     agents |-> <<[agent_name |-> "k-a",
                   metadata |-> json_dumps_metadata(request, user_id)]>>]

\* The AccessToken the handler builds and signs.
AccessToken(participant_identity, room_name, request, user_id) ==
    [api_key |-> MEDIA_SERVER_API_KEY,
     api_secret |-> MEDIA_SERVER_API_SECRET,
     identity |-> participant_identity,
     grants |-> VideoGrants(TRUE, room_name),
     ttl_hours |-> TTL_HOURS,
     agents |-> <<[agent_name |-> "k-a",
                   metadata |-> json_dumps_metadata(request, user_id)]>>]

all_credentials ==
    /\ Truthy(MEDIA_SERVER_URL)
    /\ Truthy(MEDIA_SERVER_API_KEY)
    /\ Truthy(MEDIA_SERVER_API_SECRET)

\* The try block of get_token: what it returns or the exception that leaves it,
\* with the tokens signed and the uuid4() calls made on the way.
get_token_try(request, user_id, u1, u2, signing) ==
    IF ~all_credentials
    THEN [exc |-> [type |-> "HTTPException", status |-> 500,
                   detail |-> <<"Server configuration error: Missing Media Server credentials">>],
          body |-> NoBody, signed |-> <<>>, uuid_calls |-> 0]
    ELSE LET participant_identity == <<"identity-", u1, 6>>
             room_name == <<"web-call-", u2, 32>>
             token == AccessToken(participant_identity, room_name, request, user_id)
         IN IF signing = "raise"
            THEN [exc |-> [type |-> "Exception", status |-> 0,
                           detail |-> <<"to_jwt failed">>],
                  body |-> NoBody, signed |-> <<>>, uuid_calls |-> 2]
            ELSE [exc |-> NoError,
                  body |-> [token |-> <<token>>, room_name |-> room_name,
                            participant |-> participant_identity,
                            agent |-> request.agent_name],
                  signed |-> <<token>>, uuid_calls |-> 2]

\* get_token: `except Exception` catches whatever left the try block, the
\* HTTPException of the credentials check included, and raises a 500 whose
\* detail is "Error generating token: " followed by str(e).
get_token(request, user_id, u1, u2, signing) ==
    LET r == get_token_try(request, user_id, u1, u2, signing) IN
    IF r.exc = NoError
    THEN [response |-> [status |-> 200, detail |-> <<>>, body |-> r.body],
          signed |-> r.signed, uuid_calls |-> r.uuid_calls]
    ELSE [response |-> HTTPException(500, <<"Error generating token: ">> \o str(r.exc)),
          signed |-> r.signed, uuid_calls |-> r.uuid_calls]

(* --------------------------- state machine ----------------------------- *)

NoRequest ==
    [phase |-> "Idle", api_key_header |-> None,
     request |-> [customer |-> NoCustomer, agent_name |-> "ivy"],
     user_id |-> 0, response |-> NoResponse, signed |-> <<>>, uuid_calls |-> 0]

Init ==
    /\ pc = "boot"
    /\ fetched = NotFetched
    /\ remote = Raised(NoException)
    /\ envRead = NotRead
    /\ source = "none"
    /\ fallbacks = 0
    /\ MEDIA_SERVER_URL = Unbound
    /\ MEDIA_SERVER_API_KEY = Unbound
    /\ MEDIA_SERVER_API_SECRET = Unbound
    /\ SECRET_KEYS = <<>>
    /\ req = NoRequest

\* The configuration load at import: the outcome of the secret store and the
\* process environment are what the world gives it.
Bootstrap ==
    /\ pc = "boot"
    /\ \E o \in StoreOutcomes, env \in Environments :
         \E c \in {load_configuration(o, env)} :
         /\ pc' = IF c.source = "none" THEN "crashed" ELSE "serving"
         /\ remote' = get_media_server_config(o)
         /\ envRead' = IF c.fallbacks > 0 THEN env ELSE NotRead
         /\ source' = c.source
         /\ fallbacks' = c.fallbacks
         /\ MEDIA_SERVER_URL' = c.globals.MEDIA_SERVER_URL
         /\ MEDIA_SERVER_API_KEY' = c.globals.MEDIA_SERVER_API_KEY
         /\ MEDIA_SERVER_API_SECRET' = c.globals.MEDIA_SERVER_API_SECRET
         /\ SECRET_KEYS' = c.globals.SECRET_KEYS
    /\ UNCHANGED <<fetched, req>>

\* A POST /token arrives with its X-API-Key header (or without one).
Receive ==
    /\ pc = "serving"
    /\ req.phase = "Idle"
    /\ \E h \in HeaderValues :
         req' = [NoRequest EXCEPT !.phase = "Received", !.api_key_header = h]
    /\ UNCHANGED <<pc, fetched, remote, envRead, source, fallbacks, MEDIA_SERVER_URL,
                   MEDIA_SERVER_API_KEY, MEDIA_SERVER_API_SECRET, SECRET_KEYS>>

\* The get_api_key dependency of the route runs.
GetApiKey ==
    /\ pc = "serving"
    /\ req.phase = "Received"
    /\ \E r \in {get_api_key(req.api_key_header)} :
       req' = IF r.exc = NoResponse
              THEN [req EXCEPT !.phase = "Validated", !.user_id = r.user_id]
              ELSE [req EXCEPT !.phase = "Rejected", !.response = r.exc]
    /\ UNCHANGED <<pc, fetched, remote, envRead, source, fallbacks, MEDIA_SERVER_URL,
                   MEDIA_SERVER_API_KEY, MEDIA_SERVER_API_SECRET, SECRET_KEYS>>

\* The get_token handler runs with the decoded body of the request and the
\* ordinal the dependency returned.
GetToken ==
    /\ pc = "serving"
    /\ req.phase = "Validated"
    /\ \E request \in TokenRequests, u1 \in UUIDs, u2 \in UUIDs,
          signing \in SigningOutcomes :
         \E r \in {get_token(request, req.user_id, u1, u2, signing)} :
         req' = [req EXCEPT !.phase = IF r.response.status = 200
                                      THEN "Issued" ELSE "Failed",
                            !.request = request,
                            !.response = r.response,
                            !.signed = r.signed,
                            !.uuid_calls = r.uuid_calls]
    /\ UNCHANGED <<pc, fetched, remote, envRead, source, fallbacks, MEDIA_SERVER_URL,
                   MEDIA_SERVER_API_KEY, MEDIA_SERVER_API_SECRET, SECRET_KEYS>>

\* The response has been sent; the next request may arrive.
Complete ==
    /\ pc = "serving"
    /\ req.phase \in {"Rejected", "Issued", "Failed"}
    /\ req' = NoRequest
    /\ UNCHANGED <<pc, fetched, remote, envRead, source, fallbacks, MEDIA_SERVER_URL,
                   MEDIA_SERVER_API_KEY, MEDIA_SERVER_API_SECRET, SECRET_KEYS>>

Next == Bootstrap \/ Receive \/ GetApiKey \/ GetToken \/ Complete

Spec == Init /\ [][Next]_vars

\* get_media_server_config on its own, over every outcome of the secret store.
InitConfig ==
    /\ pc = "boot"
    /\ fetched \in StoreOutcomes
    /\ remote = Raised(NoException)
    /\ envRead = NotRead
    /\ source = "none"
    /\ fallbacks = 0
    /\ MEDIA_SERVER_URL = Unbound
    /\ MEDIA_SERVER_API_KEY = Unbound
    /\ MEDIA_SERVER_API_SECRET = Unbound
    /\ SECRET_KEYS = <<>>
    /\ req = NoRequest

ResolveRemote ==
    /\ pc = "boot"
    /\ remote' = get_media_server_config(fetched)
    /\ pc' = "resolved"
    /\ UNCHANGED <<fetched, envRead, source, fallbacks, MEDIA_SERVER_URL,
                   MEDIA_SERVER_API_KEY, MEDIA_SERVER_API_SECRET, SECRET_KEYS, req>>

NextConfig == ResolveRemote

SpecConfig == InitConfig /\ [][NextConfig]_vars


(* ------------------------------ claims --------------------------------- *)

ValidKeySet == {SECRET_KEYS[i] : i \in 1..Len(SECRET_KEYS)}

\* The caller key is absent, or is no member of the configured keys.
KeyNotValid == req.api_key_header = None \/ req.api_key_header.s \notin ValidKeySet

Answered == req.phase \in {"Rejected", "Issued", "Failed"}

\* The remote tier failed: the fetch or the validation raised, or the key list
\* of the returned configuration could not be split.
RemoteFailed == IF remote.ok THEN remote.config["SECRET_KEYS"].t # "str" ELSE TRUE

RECURSIVE Join(_)
Join(parts) ==
    IF Len(parts) = 0 THEN <<>>
    ELSE IF Len(parts) = 1 THEN parts[1]
    ELSE parts[1] \o <<",">> \o Join(Tail(parts))

\* C1: a request whose caller key is absent or is not an exact member of the
\* configured keys is answered 403, and neither a uuid is drawn nor a token
\* signed for it.
C1_InvalidKeyRejected ==
    (req.phase \notin {"Idle", "Received"} /\ KeyNotValid)
        => /\ req.phase = "Rejected"
           /\ req.response.status = 403
           /\ req.uuid_calls = 0
           /\ req.signed = <<>>

\* C1 witness: a key that is only the prefix of a configured key was rejected.
C1_Witness ==
    /\ req.phase = "Rejected"
    /\ req.api_key_header = Str(<<"a">>)
    /\ SECRET_KEYS = <<<<"a", "a">>>>

\* C2: the ordinal of a validated caller is the 1-based position of the first
\* configured key equal to the caller key, and an issued token carries that
\* ordinal in its dispatch metadata.
C2_FirstMatchOrdinal ==
    /\ req.phase \in {"Validated", "Issued", "Failed"}
         => /\ req.user_id \in 1..Len(SECRET_KEYS)
            /\ SECRET_KEYS[req.user_id] = req.api_key_header.s
            /\ \A j \in 1..(req.user_id - 1) : SECRET_KEYS[j] # req.api_key_header.s
    /\ req.phase = "Issued"
         => req.response.body.token[1].agents[1].metadata[2] = <<"user_id", req.user_id>>

\* C2 witness: a token was issued for a key that is configured more than once.
C2_Witness ==
    /\ req.phase = "Issued"
    /\ req.api_key_header = Str(<<"a">>)
    /\ req.user_id = 1
    /\ \E i, j \in 1..Len(SECRET_KEYS) :
         i < j /\ SECRET_KEYS[i] = req.api_key_header.s
               /\ SECRET_KEYS[j] = req.api_key_header.s

\* C3: a validated request that meets an empty or absent server URL, API key or
\* API secret is answered 500 with the configuration-error diagnostic, signs no
\* token, and is reported neither as a 403 nor as "Error generating token".
\* Stated for the requests that presented a non-empty valid key.
C3_MisconfiguredReportedAsSuch ==
    (req.phase \in {"Issued", "Failed"} /\ ~all_credentials
        /\ req.api_key_header.s # <<>>)
        => /\ req.phase = "Failed"
           /\ req.response.status = 500
           /\ \E i \in 1..Len(req.response.detail) :
                req.response.detail[i]
                    = "Server configuration error: Missing Media Server credentials"
           /\ req.signed = <<>>
           /\ Head(req.response.detail) # "Error generating token: "

\* C4: the load never lets an exception escape; it ends with the four globals
\* bound, the environment is read exactly once when the remote tier failed and
\* not at all otherwise, and what the environment gave is kept as it is.
C4_BootstrapAlwaysYieldsConfig ==
    /\ pc # "crashed"
    /\ pc = "serving"
         => /\ MEDIA_SERVER_URL.t # "unbound"
            /\ MEDIA_SERVER_API_KEY.t # "unbound"
            /\ MEDIA_SERVER_API_SECRET.t # "unbound"
            /\ source \in {"remote", "env"}
            /\ source = "env" <=> RemoteFailed
            /\ fallbacks = IF RemoteFailed THEN 1 ELSE 0
            /\ source = "env"
                 => /\ MEDIA_SERVER_URL = envRead["MEDIA_SERVER_URL"]
                    /\ MEDIA_SERVER_API_KEY = envRead["MEDIA_SERVER_API_KEY"]
                    /\ MEDIA_SERVER_API_SECRET = envRead["MEDIA_SERVER_API_SECRET"]

\* C4 witness: the bundle's key list was no string, the environment was read
\* once, and its unset variables were accepted.
C4_Witness ==
    /\ pc = "serving"
    /\ remote.ok
    /\ remote.config["SECRET_KEYS"] = Num
    /\ fallbacks = 1
    /\ MEDIA_SERVER_URL = None
    /\ SECRET_KEYS = <<>>

\* C5: for a parsed bundle, get_media_server_config raises the missing-keys
\* error exactly when one of the four required fields is absent, the error
\* lists exactly the absent fields, and a bundle holding all four is returned
\* with its four values unchanged, empty ones included.
C5_PresenceValidation ==
    (pc = "resolved" /\ fetched.kind = "ok" /\ fetched.shape = "object")
        => LET absent == RequiredKeySet \ DOMAIN fetched.dict IN
           /\ ~remote.ok <=> absent # {}
           /\ ~remote.ok
                => /\ remote.exc.type = "SecretsManagerError"
                   /\ remote.exc.kind = "missing required keys"
                   /\ {remote.exc.keys[i] : i \in 1..Len(remote.exc.keys)} = absent
                   /\ Len(remote.exc.keys) = Cardinality(absent)
           /\ remote.ok
                => \A k \in RequiredKeySet : remote.config[k] = fetched.dict[k]

\* C5 witness: a bundle with all four fields, the URL empty, was accepted.
C5_Witness ==
    /\ pc = "resolved"
    /\ fetched.shape = "object"
    /\ DOMAIN fetched.dict = RequiredKeySet
    /\ remote.ok
    /\ remote.config["MEDIA_SERVER_URL"] = Str(<<>>)

\* C5 witness of the failing side: two fields were absent and both are named.
C5_WitnessMissing ==
    /\ pc = "resolved"
    /\ fetched.shape = "object"
    /\ remote.exc.keys = <<"MEDIA_SERVER_API_SECRET", "SECRET_KEYS">>

\* C6: an issued token is signed with the configured API key and secret, names
\* the participant the response names, lives 24 hours, grants joining the room
\* the response names and nothing else, and dispatches exactly one agent.
C6_TokenScope ==
    req.phase = "Issued"
        => LET token == req.response.body.token[1] IN
           /\ req.signed = <<token>>
           /\ token.api_key = MEDIA_SERVER_API_KEY
           /\ token.api_secret = MEDIA_SERVER_API_SECRET
           /\ token.identity = req.response.body.participant
           /\ token.ttl_hours = 24
           /\ token.grants.room_join
           /\ token.grants.room = req.response.body.room_name
           /\ req.response.body.room_name # <<>>
           /\ ~token.grants.room_admin
           /\ ~token.grants.room_list
           /\ ~token.grants.room_create
           /\ Len(token.agents) = 1

\* C6 witness: a token was issued.
C6_Witness ==
    /\ req.phase = "Issued"
    /\ req.response.status = 200
    /\ req.response.body.room_name = <<"web-call-", "u2", 32>>

\* C7: the phases a request is in and what each says.
C7_Phases ==
    /\ req.phase \in {"Idle", "Received", "Validated", "Rejected", "Issued", "Failed"}
    /\ req.phase = "Rejected" => req.response.status = 403 /\ KeyNotValid
    /\ req.phase \in {"Validated", "Issued", "Failed"} => ~KeyNotValid
    /\ req.phase = "Issued" => req.response.status = 200
    /\ req.phase = "Failed" => req.response.status = 500
    /\ (Answered /\ KeyNotValid /\ ~all_credentials)
          => req.phase = "Rejected" /\ req.response.status = 403
    /\ req.phase = "Received" => ENABLED GetApiKey
    /\ req.phase = "Validated" => ENABLED GetToken

\* C7: the steps a request takes.
C7_Steps ==
    req'.phase # req.phase
        => <<req.phase, req'.phase>> \in
              {<<"Idle", "Received">>,
               <<"Received", "Validated">>, <<"Received", "Rejected">>,
               <<"Validated", "Issued">>, <<"Validated", "Failed">>,
               <<"Rejected", "Idle">>, <<"Issued", "Idle">>, <<"Failed", "Idle">>}

\* C7: every request goes Received -> (Validated | Rejected) -> (Issued |
\* Failed): the key check comes first, so a request with a missing or invalid
\* key is answered 403 also when the credentials are empty, only a validated
\* request is issued a token or fails, and a request that was received or
\* validated can always take its next step.
C7_RequestStateMachine == []C7_Phases /\ [][C7_Steps]_vars

\* C7 witness: a request without a valid key was rejected while the server
\* URL was unset.
C7_Witness ==
    /\ req.phase = "Rejected"
    /\ req.api_key_header = None
    /\ MEDIA_SERVER_URL = None

\* C8: after the load the key list is not empty when it came from a validated
\* remote bundle, whatever string the bundle held; it is empty only when the
\* environment was read and SECRET_KEYS was unset or empty there.
C8_ValidKeysNonEmptyFromRemote ==
    pc = "serving"
        => /\ source = "remote" => SECRET_KEYS # <<>>
           /\ SECRET_KEYS = <<>>
                => /\ source = "env"
                   /\ envRead["SECRET_KEYS"] \in {None, Str(<<>>)}

\* C8 witness: the remote bundle held the empty string as its key list.
C8_Witness ==
    /\ pc = "serving"
    /\ source = "remote"
    /\ remote.config["SECRET_KEYS"] = Str(<<>>)
    /\ SECRET_KEYS = <<<<>>>>

\* C9: the empty string is never a configured key, so a request whose caller
\* key is the empty string is rejected.
C9_EmptyKeyNeverValid ==
    pc = "serving"
        => /\ <<>> \notin ValidKeySet
           /\ (Answered /\ req.api_key_header = Str(<<>>)) => req.phase = "Rejected"

\* C10: the configuration is all remote or all environment: when the remote
\* tier succeeded the four globals are the bundle's, and when it failed at any
\* point, whatever the failure, the four globals are the environment's.
C10_NoTierMixing ==
    pc = "serving"
        => /\ source = "remote"
                => /\ ~RemoteFailed
                   /\ MEDIA_SERVER_URL = remote.config["MEDIA_SERVER_URL"]
                   /\ MEDIA_SERVER_API_KEY = remote.config["MEDIA_SERVER_API_KEY"]
                   /\ MEDIA_SERVER_API_SECRET = remote.config["MEDIA_SERVER_API_SECRET"]
                   /\ Join(SECRET_KEYS) = remote.config["SECRET_KEYS"].s
           /\ RemoteFailed
                => /\ source = "env"
                   /\ MEDIA_SERVER_URL = envRead["MEDIA_SERVER_URL"]
                   /\ MEDIA_SERVER_API_KEY = envRead["MEDIA_SERVER_API_KEY"]
                   /\ MEDIA_SERVER_API_SECRET = envRead["MEDIA_SERVER_API_SECRET"]
                   /\ IF Truthy(envRead["SECRET_KEYS"])
                      THEN Join(SECRET_KEYS) = envRead["SECRET_KEYS"].s
                      ELSE SECRET_KEYS = <<>>

\* C10 witness: the bundle's credentials had been assigned when splitting its
\* key list failed, and the environment's credentials replaced them.
C10_Witness ==
    /\ pc = "serving"
    /\ remote.ok
    /\ remote.config["SECRET_KEYS"] = Num
    /\ remote.config["MEDIA_SERVER_URL"] = Str(<<"R", "u">>)
    /\ MEDIA_SERVER_URL = Str(<<"E", "u">>)
    /\ MEDIA_SERVER_API_KEY = None

====
